---- MODULE Spec2Model ----
(***************************************************************************)
(* Model of .github/workflows/add-word.py of PhraseKit: a script that      *)
(* reads a batch of words and part-of-speech tags from the environment,    *)
(* validates the words, and merges them into the per-POS JSON files        *)
(* {pending, safe, unsafe}.                                                *)
(*                                                                         *)
(* A Python str is a sequence of one-character strings.  An invocation of  *)
(* the script is a process p.  Spec runs one invocation, SpecTwice runs    *)
(* the same batch twice, one invocation after the other, SpecConc runs two *)
(* invocations with their file accesses interleaved.                       *)
(*                                                                         *)
(* Taken as given: a file that exists and is not being written holds a     *)
(* JSON object with the three lists of strings, and the GitHub calls of    *)
(* lines 43-46 succeed.                                                    *)
(***************************************************************************)
EXTENDS Integers, Sequences, FiniteSets, TLC

VARIABLES
    env,         \* env[p]: the environment of invocation p: WORDS and POS
    files,       \* the file system: path -> Absent, Truncated or the JSON object
    comments,    \* the comments posted on the GitHub issue, in order
    pc,          \* pc[p]: where invocation p stands in the script
    word_list,   \* word_list[p] (line 29)
    pos_list,    \* pos_list[p] (line 30)
    message,     \* message[p] (line 40)
    wi,          \* index in word_list of the loop variable `word` (line 78)
    pj,          \* index in pos_list of the loop variable `pos` (line 79)
    json_data,   \* json_data[p] (line 82)
    stdout,      \* stdout[p]: what invocation p printed
    files0,      \* history: the file system when invocation p started
    loaded,      \* history: the pairs <<wi, pj>> p called load_or_create_json for
    saved,       \* history: the pairs <<wi, pj>> p completed save_json for
    steps        \* history: number of steps p has taken

vars == <<env, files, comments, pc, word_list, pos_list, message, wi, pj,
          json_data, stdout, files0, loaded, saved, steps>>

Procs == {1, 2}

(***************************************************************************)
(* Python str operations used by lines 22-37.                              *)
(***************************************************************************)
Letters == <<"a","b","c","d","e","f","g","h","i","j","k","l","m",
             "n","o","p","q","r","s","t","u","v","w","x","y","z">>

Capitals == <<"A","B","C","D","E","F","G","H","I","J","K","L","M",
              "N","O","P","Q","R","S","T","U","V","W","X","Y","Z">>

Whitespace == {" ", "\t", "\n"}

Range(s) == {s[k] : k \in DOMAIN s}

\* str.splitlines(): the lines of s, without the line breaks; no last empty
\* line after a final line break.
RECURSIVE splitfrom(_, _, _)
splitfrom(s, k, cur) ==
    IF k > Len(s) THEN (IF cur = <<>> THEN <<>> ELSE <<cur>>)
    ELSE IF s[k] = "\n" THEN <<cur>> \o splitfrom(s, k + 1, <<>>)
    ELSE splitfrom(s, k + 1, Append(cur, s[k]))

splitlines(s) == splitfrom(s, 1, <<>>)

RECURSIVE lstrip(_)
lstrip(s) == IF s # <<>> /\ Head(s) \in Whitespace THEN lstrip(Tail(s)) ELSE s

RECURSIVE rstrip(_)
rstrip(s) ==
    IF s # <<>> /\ s[Len(s)] \in Whitespace THEN rstrip(SubSeq(s, 1, Len(s) - 1))
    ELSE s

\* str.strip()
strip(s) == rstrip(lstrip(s))

lowerchar(c) ==
    IF \E k \in DOMAIN Capitals : Capitals[k] = c
    THEN Letters[CHOOSE k \in DOMAIN Capitals : Capitals[k] = c]
    ELSE c

\* str.lower()
lower(s) == [k \in DOMAIN s |-> lowerchar(s[k])]

\* [x.strip().lower() for x in lines if x.strip()]  (lines 29 and 30)
RECURSIVE normalize(_)
normalize(lines) ==
    IF lines = <<>> THEN <<>>
    ELSE IF strip(Head(lines)) # <<>>
         THEN <<lower(strip(Head(lines)))>> \o normalize(Tail(lines))
         ELSE normalize(Tail(lines))

\* Mutant of re_match: the pattern [a-z0-9]+ in place of [a-z]+.
re_match_alnum(word) ==
    word # <<>> /\ \A k \in DOMAIN word :
        word[k] \in Range(Letters) \cup {"0","1","2","3","4","5","6","7","8","9"}

\* re.match(r'^[a-z]+$', word): one or more letters a-z up to the end of the
\* string, or up to a line break that ends the string.
re_match(word) ==
    LET body == IF word # <<>> /\ word[Len(word)] = "\n"
                THEN SubSeq(word, 1, Len(word) - 1) ELSE word
    IN  body # <<>> /\ \A k \in DOMAIN body : body[k] \in Range(Letters)

\* Mutant of invalid_of: stops at the first invalid word.
invalid_first(wl) ==
    IF \E k \in DOMAIN wl : ~ re_match(wl[k])
    THEN LET k == CHOOSE i \in DOMAIN wl :
                     /\ ~ re_match(wl[i])
                     /\ \A h \in 1..(i - 1) : re_match(wl[h])
         IN  <<wl[k]>>
    ELSE <<>>

\* [word for word in word_list if not re.match(...)]  (line 37)
RECURSIVE invalid_of(_)
invalid_of(wl) ==
    IF wl = <<>> THEN <<>>
    ELSE IF ~ re_match(Head(wl)) THEN <<Head(wl)>> \o invalid_of(Tail(wl))
         ELSE invalid_of(Tail(wl))

\* ', '.join(ws)  (line 39)
RECURSIVE join(_)
join(ws) ==
    IF ws = <<>> THEN <<>>
    ELSE IF Len(ws) = 1 THEN Head(ws)
         ELSE Head(ws) \o <<",", " ">> \o join(Tail(ws))

\* The f-string of line 40, kept as its three parts.
format_message(invalid_word_list) ==
    <<"The following words are invalid and cannot be processed: ",
      invalid_word_list,
      ". Only alphabetic words are allowed.">>

(***************************************************************************)
(* The files (lines 52-75).                                                *)
(***************************************************************************)
\* What a path holds: no file, a file opened for writing and still empty, or
\* a JSON object with the three lists.
Absent == [kind |-> "absent"]
Truncated == [kind |-> "truncated"]

IsData(f) == DOMAIN f = {"pending", "safe", "unsafe"}

file_map ==
    (<<"a","d","j","e","c","t","i","v","e">> :> "_adjective.json")
    @@ (<<"a","d","v","e","r","b">> :> "_adverb.json")
    @@ (<<"n","o","u","n">> :> "_noun.json")
    @@ (<<"v","e","r","b">> :> "_verb.json")

Paths == {file_map[k] : k \in DOMAIN file_map}

\* The object load_or_create_json makes when the file is absent (line 69).
EmptyData == [pending |-> <<>>, safe |-> <<>>, unsafe |-> <<>>]

\* Mutant of load_or_create_json: starts from the empty object whether or
\* not the file exists.
load_fresh(fs, path) == EmptyData

\* load_or_create_json(path), for a file that holds a JSON object.
load_or_create_json(fs, path) ==
    IF fs[path] # Absent THEN fs[path] ELSE EmptyData

\* save_json(path, data) once json.dump has written the file.
save_json(fs, path, data) == [fs EXCEPT ![path] = data]

\* Mutant of merge_word: no membership check.
merge_word_always(data, word) == [data EXCEPT !.pending = Append(@, word)]

\* Mutant of merge_word: pending is not looked at.
merge_word_skip_pending(data, word) ==
    IF word \notin Range(data.safe) /\ word \notin Range(data.unsafe)
    THEN [data EXCEPT !.pending = Append(@, word)]
    ELSE data

\* Mutant of merge_word: only pending is looked at.
merge_word_pending_only(data, word) ==
    IF word \notin Range(data.pending)
    THEN [data EXCEPT !.pending = Append(@, word)]
    ELSE data

\* Mutant of merge_word: insert(0, word) in place of append(word).
merge_word_prepend(data, word) ==
    IF word \notin Range(data.pending) /\ word \notin Range(data.safe)
       /\ word \notin Range(data.unsafe)
    THEN [data EXCEPT !.pending = <<word>> \o @]
    ELSE data

\* Lines 83-84: append word to pending unless one of the three lists has it.
merge_word(data, word) ==
    IF word \notin Range(data.pending) /\ word \notin Range(data.safe)
       /\ word \notin Range(data.unsafe)
    THEN [data EXCEPT !.pending = Append(@, word)]
    ELSE data

\* Mutant of next_pair: an unrecognised pos ends the inner loop (break in
\* place of going on to the next pos).
RECURSIVE next_pair_break(_, _, _, _)
next_pair_break(wl, pl, i, j) ==
    IF i > Len(wl) THEN <<0, 0>>
    ELSE IF j > Len(pl) THEN next_pair_break(wl, pl, i + 1, 1)
    ELSE IF pl[j] \in DOMAIN file_map THEN <<i, j>>
    ELSE next_pair_break(wl, pl, i + 1, 1)

\* Mutant of next_pair: a pos that occurred earlier in pos_list is skipped.
RECURSIVE next_pair_dedup(_, _, _, _)
next_pair_dedup(wl, pl, i, j) ==
    IF i > Len(wl) THEN <<0, 0>>
    ELSE IF j > Len(pl) THEN next_pair_dedup(wl, pl, i + 1, 1)
    ELSE IF pl[j] \in DOMAIN file_map /\ \A h \in 1..(j - 1) : pl[h] # pl[j] THEN <<i, j>>
    ELSE next_pair_dedup(wl, pl, i, j + 1)

\* Lines 78-80: the first pair (word index, pos index) at or after (i, j), in
\* loop order, whose pos is a key of file_map; <<0, 0>> when the loops end.
RECURSIVE next_pair(_, _, _, _)
next_pair(wl, pl, i, j) ==
    IF i > Len(wl) THEN <<0, 0>>
    ELSE IF j > Len(pl) THEN next_pair(wl, pl, i + 1, 1)
    ELSE IF pl[j] \in DOMAIN file_map THEN <<i, j>>
    ELSE next_pair(wl, pl, i, j + 1)

SuccessLine == "Words successfully added to the pending list in the appropriate JSON files."
EmptyLine == "No valid words or POS provided."

(***************************************************************************)
(* Bounds and the inputs drawn within them.                                *)
(***************************************************************************)
MaxWordLines == 2    \* lines of WORDS
MaxPosLines == 2     \* lines of POS
MaxStored == 1       \* words held by a JSON file before the first run
ConcMaxLines == 1    \* lines of WORDS of each of two concurrent invocations
ConcStored == 1      \* words held by the JSON file before two concurrent runs

\* Raw lines of WORDS: "A " and "b" normalise to valid words, "1" and "a b"
\* to invalid ones, " " is dropped.
WordLines == {<<"A", " ">>, <<"b">>, <<"1">>, <<"a", " ", "b">>, <<" ">>}

\* Raw lines of POS: two recognised tags and one unrecognised.
PosLines == {<<"n","o","u","n">>, <<" ","V","e","r","b">>, <<"x">>}

ConcWordLines == {<<"a">>, <<"b">>, <<"1">>}

StoreWords == {<<"a">>, <<"b">>}

RECURSIVE joinlines(_)
joinlines(ls) ==
    IF ls = <<>> THEN <<>>
    ELSE IF Len(ls) = 1 THEN Head(ls)
         ELSE Head(ls) \o <<"\n">> \o joinlines(Tail(ls))

SeqsUpTo(S, n) == UNION {[1..k -> S] : k \in 0..n}

TextsOf(lines, n) == {joinlines(ls) : ls \in SeqsUpTo(lines, n)}

\* JSON objects with the three lists, holding at most n words in all.
InitData(n) ==
    {d \in [pending : SeqsUpTo(StoreWords, n), safe : SeqsUpTo(StoreWords, n),
            unsafe : SeqsUpTo(StoreWords, n)] :
        Len(d.pending) + Len(d.safe) + Len(d.unsafe) <= n}

NoData == [kind |-> "none"]

Terminal == {"done", "failed", "crashed"}

InitLocals ==
    /\ comments = <<>>
    /\ pc = [p \in Procs |-> "start"]
    /\ word_list = [p \in Procs |-> <<>>]
    /\ pos_list = [p \in Procs |-> <<>>]
    /\ message = [p \in Procs |-> <<>>]
    /\ wi = [p \in Procs |-> 0]
    /\ pj = [p \in Procs |-> 0]
    /\ json_data = [p \in Procs |-> NoData]
    /\ stdout = [p \in Procs |-> <<>>]
    /\ files0 = [p \in Procs |-> <<>>]
    /\ loaded = [p \in Procs |-> <<>>]
    /\ saved = [p \in Procs |-> <<>>]
    /\ steps = [p \in Procs |-> 0]

\* Any batch within the bounds; _noun.json absent or any object within
\* MaxStored, the other files absent.
Init ==
    /\ \E w \in TextsOf(WordLines, MaxWordLines), t \in TextsOf(PosLines, MaxPosLines) :
          env = [p \in Procs |-> [WORDS |-> w, POS |-> t]]
    /\ \E d \in InitData(MaxStored) \cup {Absent} :
          files = [path \in Paths |-> IF path = "_noun.json" THEN d ELSE Absent]
    /\ InitLocals

\* One batch, of fewer kinds of lines, for two invocations in a row.
InitTwice ==
    /\ \E w \in TextsOf(ConcWordLines, MaxWordLines), t \in TextsOf(PosLines, MaxPosLines) :
          env = [p \in Procs |-> [WORDS |-> w, POS |-> t]]
    /\ \E d \in InitData(MaxStored) \cup {Absent} :
          files = [path \in Paths |-> IF path = "_noun.json" THEN d ELSE Absent]
    /\ InitLocals

\* A batch for each invocation, both with POS = "noun".
InitConc ==
    /\ \E w1 \in TextsOf(ConcWordLines, ConcMaxLines),
          w2 \in TextsOf(ConcWordLines, ConcMaxLines) :
          env = [p \in Procs |->
                    [WORDS |-> IF p = 1 THEN w1 ELSE w2, POS |-> <<"n","o","u","n">>]]
    /\ \E d \in InitData(ConcStored) \cup {Absent} :
          files = [path \in Paths |-> IF path = "_noun.json" THEN d ELSE Absent]
    /\ InitLocals

(***************************************************************************)
(* The script, one action per step.                                        *)
(***************************************************************************)
\* Lines 22-30: read the environment and normalise it.
Start(p) ==
    /\ pc[p] = "start"
    /\ steps' = [steps EXCEPT ![p] = @ + 1]
    /\ word_list' = [word_list EXCEPT ![p] = normalize(splitlines(env[p].WORDS))]
    /\ pos_list' = [pos_list EXCEPT ![p] = normalize(splitlines(env[p].POS))]
    /\ files0' = [files0 EXCEPT ![p] = files]
    /\ pc' = [pc EXCEPT ![p] = "gate"]
    /\ UNCHANGED <<env, files, comments, message, wi, pj, json_data, stdout,
                   loaded, saved>>

\* Lines 32-34.
EmptyGate(p) ==
    /\ pc[p] = "gate"
    /\ steps' = [steps EXCEPT ![p] = @ + 1]
    /\ IF word_list[p] = <<>> \/ pos_list[p] = <<>>
       THEN /\ stdout' = [stdout EXCEPT ![p] = Append(@, EmptyLine)]
            /\ pc' = [pc EXCEPT ![p] = "failed"]
       ELSE /\ pc' = [pc EXCEPT ![p] = "validate"]
            /\ UNCHANGED stdout
    /\ UNCHANGED <<env, files, comments, word_list, pos_list, message, wi, pj,
                   json_data, files0, loaded, saved>>

\* Where the loops of lines 78-80 stand after (i, j): at a pair to process,
\* or past the end, and then line 87 prints and the script ends.
EnterLoop(p, i, j) ==
    LET nx == next_pair(word_list[p], pos_list[p], i, j)
    IN  IF nx = <<0, 0>>
        THEN /\ stdout' = [stdout EXCEPT ![p] = Append(@, SuccessLine)]
             /\ pc' = [pc EXCEPT ![p] = "done"]
             /\ UNCHANGED <<wi, pj>>
        ELSE /\ wi' = [wi EXCEPT ![p] = nx[1]]
             /\ pj' = [pj EXCEPT ![p] = nx[2]]
             /\ pc' = [pc EXCEPT ![p] = "load"]
             /\ UNCHANGED stdout

\* Lines 37-40, and with no invalid word lines 51-80 up to the first pair.
Validate(p) ==
    /\ pc[p] = "validate"
    /\ steps' = [steps EXCEPT ![p] = @ + 1]
    /\ LET invalid_words == invalid_of(word_list[p])
       IN  IF invalid_words # <<>>
           THEN /\ message' = [message EXCEPT ![p] = format_message(join(invalid_words))]
                /\ pc' = [pc EXCEPT ![p] = "notify"]
                /\ UNCHANGED <<wi, pj, stdout>>
           ELSE /\ EnterLoop(p, 1, 1)
                /\ UNCHANGED message
    /\ UNCHANGED <<env, files, comments, word_list, pos_list, json_data, files0,
                   loaded, saved>>

\* Lines 43-46: issue.create_comment(message).
Notify(p) ==
    /\ pc[p] = "notify"
    /\ steps' = [steps EXCEPT ![p] = @ + 1]
    /\ comments' = Append(comments, [by |-> p, body |-> message[p]])
    /\ pc' = [pc EXCEPT ![p] = "print"]
    /\ UNCHANGED <<env, files, word_list, pos_list, message, wi, pj, json_data,
                   stdout, files0, loaded, saved>>

\* Lines 48-49.
PrintInvalid(p) ==
    /\ pc[p] = "print"
    /\ steps' = [steps EXCEPT ![p] = @ + 1]
    /\ stdout' = [stdout EXCEPT ![p] = Append(@, message[p])]
    /\ pc' = [pc EXCEPT ![p] = "failed"]
    /\ UNCHANGED <<env, files, comments, word_list, pos_list, message, wi, pj,
                   json_data, files0, loaded, saved>>

CurPath(p) == file_map[pos_list[p][pj[p]]]

\* Mutant of Load: a lock on the files, held from load to the end of save.
Load_locked(p) ==
    /\ pc[p] = "load"
    /\ \A q \in Procs \ {p} : pc[q] \notin {"merge", "save", "dump"}
    /\ steps' = [steps EXCEPT ![p] = @ + 1]
    /\ loaded' = [loaded EXCEPT ![p] = Append(@, <<wi[p], pj[p]>>)]
    /\ json_data' = [json_data EXCEPT ![p] = load_or_create_json(files, CurPath(p))]
    /\ pc' = [pc EXCEPT ![p] = "merge"]
    /\ UNCHANGED <<env, files, comments, word_list, pos_list, message, wi, pj,
                   stdout, files0, saved>>

\* Lines 81-82.  json.load of a file another invocation has opened for
\* writing and not yet written raises, and the script ends with a traceback.
Load(p) ==
    /\ pc[p] = "load"
    /\ steps' = [steps EXCEPT ![p] = @ + 1]
    /\ loaded' = [loaded EXCEPT ![p] = Append(@, <<wi[p], pj[p]>>)]
    /\ IF files[CurPath(p)] = Truncated
       THEN /\ pc' = [pc EXCEPT ![p] = "crashed"]
            /\ UNCHANGED json_data
       ELSE /\ json_data' = [json_data EXCEPT ![p] = load_or_create_json(files, CurPath(p))]
            /\ pc' = [pc EXCEPT ![p] = "merge"]
    /\ UNCHANGED <<env, files, comments, word_list, pos_list, message, wi, pj,
                   stdout, files0, saved>>

\* Lines 83-84.
Merge(p) ==
    /\ pc[p] = "merge"
    /\ steps' = [steps EXCEPT ![p] = @ + 1]
    /\ json_data' = [json_data EXCEPT ![p] = merge_word(@, word_list[p][wi[p]])]
    /\ pc' = [pc EXCEPT ![p] = "save"]
    /\ UNCHANGED <<env, files, comments, word_list, pos_list, message, wi, pj,
                   stdout, files0, loaded, saved>>

\* Line 74: open(path, "w") creates the file or empties it.
OpenForWrite(p) ==
    /\ pc[p] = "save"
    /\ steps' = [steps EXCEPT ![p] = @ + 1]
    /\ files' = [files EXCEPT ![CurPath(p)] = Truncated]
    /\ pc' = [pc EXCEPT ![p] = "dump"]
    /\ UNCHANGED <<env, comments, word_list, pos_list, message, wi, pj, json_data,
                   stdout, files0, loaded, saved>>

\* Line 75 and the end of the with block, then the loops go on (78-80, 87).
Dump(p) ==
    /\ pc[p] = "dump"
    /\ steps' = [steps EXCEPT ![p] = @ + 1]
    /\ files' = save_json(files, CurPath(p), json_data[p])
    /\ saved' = [saved EXCEPT ![p] = Append(@, <<wi[p], pj[p]>>)]
    /\ EnterLoop(p, wi[p], pj[p] + 1)
    /\ UNCHANGED <<env, comments, word_list, pos_list, message, json_data, files0,
                   loaded>>

\* The script after its first step.
Run(p) ==
    \/ EmptyGate(p)
    \/ Validate(p)
    \/ Notify(p)
    \/ PrintInvalid(p)
    \/ Load(p)
    \/ Merge(p)
    \/ OpenForWrite(p)
    \/ Dump(p)

\* One invocation, alone on the files.
Next == Start(1) \/ Run(1)

Spec == Init /\ [][Next]_vars

\* The same batch run twice, the second invocation after the first has ended.
NextTwice == (pc[1] \in Terminal /\ Start(2)) \/ (\E p \in Procs : Run(p)) \/ Start(1)

SpecTwice == InitTwice /\ [][NextTwice]_vars

\* Two invocations interleaved at their file accesses.
NextConc == \E p \in Procs : Start(p) \/ Run(p)

SpecConc == InitConc /\ [][NextConc]_vars

(***************************************************************************)
(* Vocabulary of the properties, stated apart from the operators above.    *)
(***************************************************************************)
Started(p) == pc[p] # "start"

\* One or more letters a-z.
ValidWord(w) ==
    /\ Len(w) >= 1
    /\ \A k \in 1..Len(w) :
          w[k] \in {"a","b","c","d","e","f","g","h","i","j","k","l","m",
                    "n","o","p","q","r","s","t","u","v","w","x","y","z"}

\* The recognised tags and their stores.
Tags == {<<"a","d","j","e","c","t","i","v","e">>, <<"a","d","v","e","r","b">>,
         <<"n","o","u","n">>, <<"v","e","r","b">>}

StoreOf(t) ==
    CASE t = <<"a","d","j","e","c","t","i","v","e">> -> "_adjective.json"
      [] t = <<"a","d","v","e","r","b">> -> "_adverb.json"
      [] t = <<"n","o","u","n">> -> "_noun.json"
      [] t = <<"v","e","r","b">> -> "_verb.json"

HasInvalid(p) == \E k \in 1..Len(word_list[p]) : ~ ValidWord(word_list[p][k])

EmptyInput(p) == word_list[p] = <<>> \/ pos_list[p] = <<>>

OffendingWords(p) == SelectSeq(word_list[p], LAMBDA w : ~ ValidWord(w))

CommentsBy(p) == SelectSeq(comments, LAMBDA c : c.by = p)

\* The (word, recognised POS) pairs of the batch of p, as index pairs.
PairsOf(p) ==
    {<<i, j>> \in (1..Len(word_list[p])) \X (1..Len(pos_list[p])) :
        pos_list[p][j] \in Tags}

LexLess(a, b) == a[1] < b[1] \/ (a[1] = b[1] /\ a[2] < b[2])

\* s lists every pair of p once, in loop order.
AllPairsInOrder(s, p) ==
    /\ Range(s) = PairsOf(p)
    /\ \A k \in 1..(Len(s) - 1) : LexLess(s[k], s[k + 1])

\* C1: a run whose normalized word sequence holds an invalid word, or whose
\* normalized word or POS sequence is empty, never loads, creates or saves a
\* store: every store keeps its state from before the run, and the run can
\* only end in failure.
C1_RejectedBatchTouchesNoStore ==
    \A p \in Procs :
        (Started(p) /\ (HasInvalid(p) \/ EmptyInput(p))) =>
            /\ files = files0[p]
            /\ loaded[p] = <<>> /\ saved[p] = <<>> /\ json_data[p] = NoData
            /\ pc[p] \in {"gate", "validate", "notify", "print", "failed"}

\* Witness of C1: a failed run whose batch also holds a valid word and a
\* recognised tag, over an existing store.
C1_Witness ==
    /\ pc[1] = "failed"
    /\ HasInvalid(1)
    /\ \E k \in 1..Len(word_list[1]) : ValidWord(word_list[1][k])
    /\ \E j \in 1..Len(pos_list[1]) : pos_list[1][j] \in Tags
    /\ IsData(files["_noun.json"])

\* C6: a run posts at most one comment; a run that has ended has posted
\* exactly one when both sequences are non-empty and a word is invalid, and
\* the comment (also printed) names all the offending words, comma-joined in
\* input order; otherwise it has posted none.
C6_NotifyExactlyOnInvalidWords ==
    \A p \in Procs :
        /\ Len(CommentsBy(p)) <= 1
        /\ pc[p] \in Terminal =>
              IF ~ EmptyInput(p) /\ HasInvalid(p)
              THEN /\ CommentsBy(p) =
                        <<[by |-> p,
                           body |-> <<"The following words are invalid and cannot be processed: ",
                                      join(OffendingWords(p)),
                                      ". Only alphabetic words are allowed.">>]>>
                   /\ stdout[p] = <<CommentsBy(p)[1].body>>
                   /\ pc[p] = "failed"
              ELSE CommentsBy(p) = <<>>

\* Witness of C6: a failed run with two different offending words and one
\* comment.
C6_Witness ==
    /\ pc[1] = "failed"
    /\ Len(OffendingWords(1)) = 2
    /\ OffendingWords(1)[1] # OffendingWords(1)[2]
    /\ Len(comments) = 1

Before(p, path) == IF IsData(files0[p][path]) THEN files0[p][path] ELSE EmptyData

AllOf(d) == d.pending \o d.safe \o d.unsafe

Occurrences(w, s) == Cardinality({k \in 1..Len(s) : s[k] = w})

\* No word twice in a list or in two lists.
Disjoint(d) == \A k, h \in 1..Len(AllOf(d)) : AllOf(d)[k] = AllOf(d)[h] => k = h

\* The paths of the recognised tags of the POS sequence of p, when p has words.
TouchedPaths(p) ==
    IF word_list[p] = <<>> THEN {}
    ELSE {StoreOf(pos_list[p][j]) : j \in {h \in 1..Len(pos_list[p]) : pos_list[p][h] \in Tags}}

IsPrefix(s, t) == Len(s) <= Len(t) /\ SubSeq(t, 1, Len(s)) = s

\* The words of wl that are not in `known`, each once, in order of first
\* occurrence.
RECURSIVE NewWords(_, _)
NewWords(wl, known) ==
    IF wl = <<>> THEN <<>>
    ELSE IF Head(wl) \in known THEN NewWords(Tail(wl), known)
         ELSE <<Head(wl)>> \o NewWords(Tail(wl), known \cup {Head(wl)})

\* C2: once the batch has run, running it again changes no store: while the
\* second run goes and when it has ended, every path holds what it held when
\* the second run started (or is open for writing, between the two steps of
\* a save), and the second run saves nothing but what it loaded.
C2_SecondRunChangesNothing ==
    Started(2) =>
        /\ \A path \in Paths : files[path] \in {files0[2][path], Truncated}
        /\ pc[2] \in {"save", "dump"} => json_data[2] = files0[2][CurPath(2)]
        /\ pc[2] \in Terminal => files = files0[2]

\* Witness of C2: both runs ended in success, the first one having added two
\* words to a store.
C2_Witness ==
    /\ pc[1] = "done" /\ pc[2] = "done"
    /\ Len(saved[2]) >= 2
    /\ Len(files["_noun.json"].pending) = Len(Before(1, "_noun.json").pending) + 2

\* C3: a store in which no word occurred twice when the run started holds no
\* word twice at any later moment of the run, and neither does the object
\* the run is about to save.
C3_DisjointnessKept ==
    \A path \in Paths :
        (Started(1) /\ Disjoint(Before(1, path))) =>
            /\ IsData(files[path]) => Disjoint(files[path])
            /\ (pc[1] \in {"merge", "save", "dump"} /\ CurPath(1) = path) =>
                  Disjoint(json_data[1])

\* Witness of C3: a successful run whose batch repeats a word and a tag, over
\* a store that held another word.
C3_Witness ==
    /\ pc[1] = "done"
    /\ Len(word_list[1]) = 2 /\ word_list[1][1] = word_list[1][2]
    /\ Len(pos_list[1]) = 2 /\ pos_list[1][1] = pos_list[1][2]
    /\ Len(saved[1]) = 4
    /\ Len(Before(1, "_noun.json").safe) = 1
    /\ Len(files["_noun.json"].pending) = 1

\* C4: a batch word that safe or unsafe of a store holds is not added to
\* pending of that store: the object about to be saved, and the store at
\* every moment of the run, hold the word in pending as often as before the
\* run, with safe and unsafe as they were.
C4_NonReclassification ==
    Started(1) =>
        /\ pc[1] \in {"save", "dump"} =>
              LET w == word_list[1][wi[1]]
                  d == json_data[1]
                  b == Before(1, CurPath(1))
              IN  w \in Range(d.safe) \cup Range(d.unsafe) =>
                      /\ Occurrences(w, d.pending) = Occurrences(w, b.pending)
                      /\ d.safe = b.safe /\ d.unsafe = b.unsafe
        /\ \A path \in TouchedPaths(1) : \A w \in Range(word_list[1]) :
              (IsData(files[path])
               /\ w \in Range(Before(1, path).safe) \cup Range(Before(1, path).unsafe)) =>
                  /\ Occurrences(w, files[path].pending)
                        = Occurrences(w, Before(1, path).pending)
                  /\ files[path].safe = Before(1, path).safe
                  /\ files[path].unsafe = Before(1, path).unsafe

\* Witness of C4: a successful run over two words for the noun store, which
\* held one of them in unsafe and gained the other.
C4_Witness ==
    /\ pc[1] = "done"
    /\ "_noun.json" \in TouchedPaths(1)
    /\ \E w \in Range(word_list[1]) :
          /\ w \in Range(Before(1, "_noun.json").unsafe)
          /\ w \notin Range(files["_noun.json"].pending)
    /\ Len(files["_noun.json"].pending) = Len(Before(1, "_noun.json").pending) + 1

\* The frame of a run: the stores of tags that are not recognised tags of
\* the batch hold what they held before the run; the store of a recognised
\* tag of the batch holds that too, or is open for writing, or holds the
\* same safe and unsafe lists and a pending list that is the old one
\* followed by batch words.
FrameKept ==
    /\ \A path \in Paths \ TouchedPaths(1) : files[path] = files0[1][path]
    /\ \A path \in TouchedPaths(1) :
          \/ files[path] = files0[1][path]
          \/ files[path] = Truncated
          \/ /\ IsData(files[path])
             /\ files[path].safe = Before(1, path).safe
             /\ files[path].unsafe = Before(1, path).unsafe
             /\ IsPrefix(Before(1, path).pending, files[path].pending)
             /\ \A k \in (Len(Before(1, path).pending) + 1)..Len(files[path].pending) :
                   files[path].pending[k] \in Range(word_list[1])

OnlyUnrecognisedTags ==
    pos_list[1] # <<>> /\ \A j \in 1..Len(pos_list[1]) : pos_list[1][j] \notin Tags

\* C5 as amended: the frame of a run is kept, and a run whose batch passes
\* validation (words present, all of them valid) and whose POS sequence holds
\* only unrecognised tags ends in success with every path as it was.
C5_Frame ==
    Started(1) =>
        /\ FrameKept
        /\ (pc[1] \in Terminal /\ OnlyUnrecognisedTags
            /\ word_list[1] # <<>> /\ ~ HasInvalid(1)) =>
              pc[1] = "done" /\ files = files0[1]

\* C5 as stated: the frame of a run is kept, and every run whose POS sequence
\* holds only unrecognised tags ends in success with every path as it was.
C5_Original ==
    Started(1) =>
        /\ FrameKept
        /\ (pc[1] \in Terminal /\ OnlyUnrecognisedTags) =>
              pc[1] = "done" /\ files = files0[1]

\* Witness of C5: a successful run with a recognised and an unrecognised tag
\* that added a word after the one pending held.
C5_Witness ==
    /\ pc[1] = "done"
    /\ \E j \in 1..Len(pos_list[1]) : pos_list[1][j] \notin Tags
    /\ TouchedPaths(1) = {"_noun.json"}
    /\ Len(Before(1, "_noun.json").pending) = 1
    /\ Len(files["_noun.json"].pending) = 2

\* C9: after a successful run the store of every recognised tag of the batch
\* exists, holds every batch word in one of its lists, has the safe and
\* unsafe lists it had (empty if it was absent), and its pending list is the
\* old one followed by the batch words that none of the three lists held,
\* each once, in order of first occurrence.
C9_SuccessfulRunResult ==
    pc[1] = "done" =>
        \A path \in TouchedPaths(1) :
            /\ IsData(files[path])
            /\ \A w \in Range(word_list[1]) : w \in Range(AllOf(files[path]))
            /\ files[path].pending =
                  Before(1, path).pending
                  \o NewWords(word_list[1], Range(AllOf(Before(1, path))))
            /\ files[path].safe = Before(1, path).safe
            /\ files[path].unsafe = Before(1, path).unsafe

\* Witness of C9: a successful run over two different words and the tags
\* noun and verb, the verb store absent before, the noun store not.
C9_Witness ==
    /\ pc[1] = "done"
    /\ Len(word_list[1]) = 2 /\ word_list[1][1] # word_list[1][2]
    /\ TouchedPaths(1) = {"_noun.json", "_verb.json"}
    /\ files0[1]["_verb.json"] = Absent
    /\ Len(files["_verb.json"].pending) = 2
    /\ Len(Before(1, "_noun.json").pending) = 1
    /\ Len(files["_noun.json"].pending) = 2

\* The variant that handles each recognised tag of the batch in one cycle:
\* load the store, add every batch word that none of the lists holds, save.
RECURSIVE AddAll(_, _)
AddAll(d, wl) ==
    IF wl = <<>> THEN d
    ELSE AddAll(IF Head(wl) \in Range(AllOf(d)) THEN d
                ELSE [d EXCEPT !.pending = Append(@, Head(wl))],
                Tail(wl))

BatchedResult(p) ==
    [path \in Paths |->
        IF path \in TouchedPaths(p) THEN AddAll(Before(p, path), word_list[p])
        ELSE files0[p][path]]

\* C10: a successful run has loaded once and saved once for every (word,
\* recognised POS) pair, and leaves the files as the per-tag variant does.
C10_PerPairEqualsBatched ==
    pc[1] = "done" =>
        /\ Len(loaded[1]) = Cardinality(PairsOf(1))
        /\ Len(saved[1]) = Cardinality(PairsOf(1))
        /\ \A k, h \in 1..Len(saved[1]) : saved[1][k] = saved[1][h] => k = h
        /\ files = BatchedResult(1)

\* Witness of C10: a successful run that went four times through the same
\* store, for two different words and a tag given twice.
C10_Witness ==
    /\ pc[1] = "done"
    /\ Len(saved[1]) = 4
    /\ word_list[1][1] # word_list[1][2]
    /\ TouchedPaths(1) = {"_noun.json"}
    /\ files # files0[1]

\* C8: two invocations on the same files are not kept apart: whatever the
\* other one is doing, an invocation between its load and the end of its save
\* can take its next step, it loads what the path holds at that moment, and
\* its save leaves the path holding its own copy.
C8_NoLockNoVersionCheck ==
    [][\A p \in Procs :
          /\ pc[p] \in {"load", "merge", "save", "dump"} => ENABLED Run(p)
          /\ (pc[p] = "load" /\ pc'[p] = "merge") =>
                json_data'[p] = IF IsData(files[CurPath(p)]) THEN files[CurPath(p)]
                                ELSE EmptyData
          /\ (pc[p] = "dump" /\ pc'[p] # "dump") =>
                files'[CurPath(p)] = json_data[p]]_vars

\* Witness of C8, the lost update: both invocations ended in success and a
\* word of the batch of one of them is in none of the three lists.
C8_Witness ==
    /\ pc[1] = "done" /\ pc[2] = "done"
    /\ IsData(files["_noun.json"])
    /\ \E p \in Procs : \E w \in Range(word_list[p]) :
          /\ saved[p] # <<>>
          /\ w \in Range(json_data[p].pending)
          /\ w \notin Range(AllOf(files["_noun.json"]))
====
